---- MODULE Spec2Model ----
(***************************************************************************)
(* Model of recipe.py, the Streamlit recipe finder.                        *)
(*                                                                         *)
(* Quantities are Python floats in the source.  They are modelled as       *)
(* fixed-point integers counting ten-thousandths (1.0 is 10000), so that   *)
(* scaling and the two-decimal rounding of format_amount are exact.        *)
(* Python strings produced by format_amount are sequences of one-character *)
(* strings; Join turns such a sequence into a TLA+ string.                 *)
(***************************************************************************)
EXTENDS Integers, Sequences, FiniteSets, TLC

VARIABLES
    people_count,      \* value of the "Number of People" widget (line 132)
    chart_option,      \* value of the "Choose Chart Type" widget (line 134)
    recipes,           \* list returned by get_recipes (line 137)
    i,                 \* position of the loop of line 139 in recipes
    pc,                \* position of the script / of the function harness
    ingredients_list,  \* the list built at lines 147-152
    shown,             \* what st.write displays at line 153
    recipe_pdf,        \* ingredient lines of the recipe PDF (line 185)
    shopping_list_pdf, \* lines of the shopping-list PDF (line 193)
    df,                \* data frame returned by create_ingredients_df
    chart,             \* rows handed to st.bar_chart / ax.pie
    raised,            \* exception that ended the run, or "none"
    requests,          \* HTTP requests issued, in order
    searchOk,          \* response.ok of the search request: "none" before it
    infoOk,            \* response.ok of each information request, in order
    rendered,          \* ids of the recipes whose subheader was written
    errors,            \* messages given to st.error
    amount,            \* argument of format_amount
    text               \* result of format_amount

vars == << people_count, chart_option, recipes, i, pc, ingredients_list, shown,
           recipe_pdf, shopping_list_pdf, df, chart, raised, requests, searchOk,
           infoOk, rendered, errors, amount, text >>

-----------------------------------------------------------------------------
(* Bounds of the model *)

\* longest used+missed list of the freely chosen recipes
MaxSmall == 3
\* longest used+missed list of the recipes with pairwise distinct names
MaxIngredients == 7
\* largest people_count the function harness passes
MaxPeople == 3
\* largest argument of format_amount, in ten-thousandths
MaxFmtAmount == 25100
\* largest number a user types into the people widget
MaxTyped == 101
\* longest recipe list a search returns in the model
MaxRecipes == 2

\* ten-thousandths in one hundredth: round(amount, 2) keeps hundredths
Hundredth == 100
\* ten-thousandths in one unit
Unit == Hundredth * 100

-----------------------------------------------------------------------------
(* Helpers *)

Range(s) == {s[k] : k \in 1..Len(s)}

Min(a, b) == IF a < b THEN a ELSE b

RECURSIVE SumSeq(_)
SumSeq(s) == IF s = <<>> THEN 0 ELSE Head(s) + SumSeq(Tail(s))

RECURSIVE Join(_)
Join(cs) == IF cs = <<>> THEN "" ELSE Head(cs) \o Join(Tail(cs))

Digits == <<"0", "1", "2", "3", "4", "5", "6", "7", "8", "9">>

\* str(n) of a non-negative Python int
RECURSIVE StrInt(_)
StrInt(n) == IF n < 10 THEN <<Digits[n + 1]>>
             ELSE StrInt(n \div 10) \o <<Digits[(n % 10) + 1]>>

\* str(x) of a non-negative Python float x holding h hundredths: the shortest
\* representation that reads back as x, which always has a decimal point
StrFloat(h) ==
    LET whole == h \div 100
        frac  == h % 100
    IN  StrInt(whole) \o <<".">> \o
        (IF frac % 10 = 0 THEN <<Digits[(frac \div 10) + 1]>>
         ELSE <<Digits[(frac \div 10) + 1], Digits[(frac % 10) + 1]>>)

-----------------------------------------------------------------------------
(* format_amount, lines 38-41 *)

\* round(amount, 2): the hundredths nearest to amount.  A decimal half-way
\* case is decided by the binary value of the float: it is exact only for
\* multiples of 1/8 (round-half-even applies); otherwise the float lies just
\* below or just above the half, so both neighbours are possible outcomes.
Round2(a) ==
    LET q == a \div Hundredth
        r == a % Hundredth
    IN  IF r * 2 < Hundredth THEN {q}
        ELSE IF r * 2 > Hundredth THEN {q + 1}
        ELSE IF a % (Unit \div 8) = 0
             THEN {IF q % 2 = 0 THEN q ELSE q + 1}
             ELSE {q, q + 1}

\* float.is_integer() of a float holding h hundredths
IsInteger(h) == h % 100 = 0

\* a format_amount that tests integrality before rounding
FormatRoundedBad(a, h) ==
    IF a % Unit = 0 THEN StrInt(a \div Unit) ELSE StrFloat(h)

\* line 41, with h the value round(amount, 2) of line 40
FormatRounded(a, h) ==
    IF IsInteger(h) THEN StrInt(h \div 100) ELSE StrFloat(h)

\* the results format_amount(a) can return
format_amount(a) == {FormatRounded(a, h) : h \in Round2(a)}

-----------------------------------------------------------------------------
(* Python dict and the ingredient records *)

\* An ingredient record is a function from its keys to their values; a key
\* the API response left out is absent from the DOMAIN.
HasKey(ing, key) == key \in DOMAIN ing

\* dict.get(key, default)
Get(ing, key, default) == IF HasKey(ing, key) THEN ing[key] ELSE default

\* A dict is the sequence of its <<key, value>> items in insertion order.
Keys(data) == {data[k][1] : k \in 1..Len(data)}

\* a dict assignment that re-inserts an existing key at the end
DictSetMoveToEnd(data, key, value) ==
    SelectSeq(data, LAMBDA item : item[1] # key) \o << <<key, value>> >>

\* a dict that appends an item even when the key exists
DictSetAppend(data, key, value) == Append(data, <<key, value>>)

\* data[key] = value: an existing key keeps its position and takes the new
\* value, a new key goes last
DictSet(data, key, value) ==
    IF key \in Keys(data)
    THEN [k \in 1..Len(data) |->
            IF data[k][1] = key THEN <<key, value>> ELSE data[k]]
    ELSE Append(data, <<key, value>>)

-----------------------------------------------------------------------------
(* create_ingredients_df, lines 43-51 *)

\* the loop of lines 46-49 over the records not yet visited; the result is
\* the dict, or the exception that ing['originalName'] or ing['amount']
\* raises for an absent key
RECURSIVE AggregateLoop(_, _, _)
AggregateLoop(ings, count, data) ==
    IF ings = <<>> THEN [raised |-> "none", data |-> data]
    ELSE LET ing == Head(ings)
         IN  IF ~HasKey(ing, "originalName") \/ ~HasKey(ing, "amount")
             THEN [raised |-> "KeyError", data |-> data]
             ELSE AggregateLoop(Tail(ings), count,
                                DictSet(data, ing["originalName"],
                                        ing["amount"] * count))

\* pd.DataFrame(list(data.items()), columns=['Ingredient', 'Amount'])
DataFrame(data) ==
    [k \in 1..Len(data) |-> [Ingredient |-> data[k][1], Amount |-> data[k][2]]]

create_ingredients_df(count, recipe) ==
    LET r == AggregateLoop(recipe.usedIngredients \o recipe.missedIngredients,
                           count, <<>>)
    IN  [raised |-> r.raised,
         df |-> IF r.raised = "none" THEN DataFrame(r.data) ELSE <<>>]

-----------------------------------------------------------------------------
(* the ingredient list of lines 147-152 *)

\* one line per record with two lines dropped into one when the name repeats
LineKeyed(lines, ing, amt) ==
    IF \E k \in 1..Len(lines) : lines[k].name = ing["originalName"]
    THEN lines
    ELSE Append(lines, [amount |-> amt, unit |-> Get(ing, "unitLong", ""),
                        name |-> ing["originalName"]])

\* ingredients_list.append(f"{amount} {unit} {name}"), lines 150-152
AppendLine(lines, ing, amt) ==
    Append(lines, [amount |-> amt, unit |-> Get(ing, "unitLong", ""),
                   name |-> ing["originalName"]])

\* f"{amount} {unit} {name}"
LineText(line) == Join(line.amount) \o " " \o line.unit \o " " \o line.name

\* The loop of lines 148-152.  Each line is kept as its three fields.  The
\* result is the set of outcomes: format_amount has two possible results on
\* a half-way amount.  Line 149 reads ing['amount'] before line 151 reads
\* ing['originalName']; either absent key raises KeyError.
RECURSIVE ListLoop(_, _, _)
ListLoop(ings, count, lines) ==
    IF ings = <<>> THEN {[raised |-> "none", lines |-> lines]}
    ELSE LET ing == Head(ings)
         IN  IF ~HasKey(ing, "amount") \/ ~HasKey(ing, "originalName")
             THEN {[raised |-> "KeyError", lines |-> lines]}
             ELSE UNION {ListLoop(Tail(ings), count, AppendLine(lines, ing, amt)) :
                            amt \in format_amount(ing["amount"] * count)}

-----------------------------------------------------------------------------
(* the PDFs, lines 53-113, as the lines of text they are given; the bullet *)
(* character of lines 74 and 110 is written "*"                            *)

\* lines 70-74 of create_recipe_pdf: the heading and one cell per ingredient
create_recipe_pdf(title, ingredients) ==
    <<"Recipe: " \o title, "Ingredients:">> \o
    [k \in 1..Len(ingredients) |-> "* " \o ingredients[k]]

\* lines 105-110 of create_shopping_list_pdf
create_shopping_list_pdf(title, ingredients) ==
    <<"Shopping List for: " \o title>> \o
    [k \in 1..Len(ingredients) |-> "* " \o ingredients[k]]

-----------------------------------------------------------------------------
(* plot_chart, lines 115-123 *)

\* the long-tail folding: the 4 first rows and one row "Other"
FoldedRows(frame, chart_type) ==
    IF Len(frame) <= 5
    THEN [k \in 1..Len(frame) |->
            [label |-> frame[k].Ingredient, value |-> frame[k].Amount]]
    ELSE [k \in 1..5 |->
            IF k <= 4
            THEN [label |-> frame[k].Ingredient, value |-> frame[k].Amount]
            ELSE [label |-> "Other",
                  value |-> SumSeq([j \in 1..(Len(frame) - 4) |->
                                      frame[j + 4].Amount])]]

\* a chart that plots at most 5 rows and drops the others
TruncatedRows(frame, chart_type) ==
    [k \in 1..Min(Len(frame), 5) |->
        [label |-> frame[k].Ingredient, value |-> frame[k].Amount]]

\* the rows st.bar_chart(df.set_index('Ingredient')) or
\* ax.pie(df['Amount'], labels=df['Ingredient']) is given; any other
\* chart_type plots nothing
ChartRows(frame, chart_type) ==
    IF chart_type = "Bar Chart" \/ chart_type = "Pie Chart"
    THEN [k \in 1..Len(frame) |->
            [label |-> frame[k].Ingredient, value |-> frame[k].Amount]]
    ELSE <<>>

\* df after plot_chart: set_index returns a new frame and df['Amount'],
\* df['Ingredient'] only read, so df is left as it was
FrameAfterPlot(frame, chart_type) == frame

-----------------------------------------------------------------------------
(* Inputs *)

\* the options of the selectbox of line 134
ChartTypes == {"Bar Chart", "Pie Chart"}

AllNames == <<"flour", "egg", "milk", "sugar", "salt", "butter", "oil",
              "yeast", "rice", "honey">>

SmallNames == {"flour", "egg"}

SmallAmounts == {Unit \div 2, Unit}

\* well-formed records, and records the API left a key out of
SmallRecords ==
    {[originalName |-> n, amount |-> a, unitLong |-> "cup"] :
        n \in SmallNames, a \in SmallAmounts}
    \cup {[originalName |-> "flour", amount |-> Unit],
          [originalName |-> "flour", unitLong |-> "cup"],
          [amount |-> Unit, unitLong |-> "cup"]}

\* every split of a sequence into a used and a missed list
Splits(id, s) ==
    {[id |-> id, usedIngredients |-> SubSeq(s, 1, k),
      missedIngredients |-> SubSeq(s, k + 1, Len(s))] : k \in 0..Len(s)}

\* short recipes over SmallRecords, names repeating freely
SmallRecipes ==
    UNION {Splits(1, s) : s \in UNION {[1..n -> SmallRecords] : n \in 0..MaxSmall}}

\* longer recipes with pairwise distinct names
LongRecipes ==
    UNION {UNION {Splits(1, [j \in 1..n |->
                               [originalName |-> AllNames[j], amount |-> a[j],
                                unitLong |-> "g"]]) :
                     a \in [1..n -> {Unit, 2 * Unit}]} :
             n \in 1..MaxIngredients}

\* 7 distinct ingredients with the amounts 10, 9, 8, 7, 6, 5, 4
ExampleRecipe ==
    [id |-> 1,
     usedIngredients |-> [j \in 1..4 |->
        [originalName |-> AllNames[j], amount |-> (11 - j) * Unit,
         unitLong |-> "g"]],
     missedIngredients |-> [j \in 1..3 |->
        [originalName |-> AllNames[j + 4], amount |-> (7 - j) * Unit,
         unitLong |-> "g"]]]

HarnessRecipes == SmallRecipes \cup LongRecipes \cup {ExampleRecipe}

\* the title the information response gives recipe id
TitleOf(id) == "Recipe" \o Join(StrInt(id))

\* the loop variable of line 139
recipe == recipes[i]

Ingredients(r) == r.usedIngredients \o r.missedIngredients

-----------------------------------------------------------------------------
(* Spec: the functions applied to every input of HarnessRecipes *)

Init ==
    /\ people_count \in 1..MaxPeople
    /\ chart_option \in ChartTypes
    /\ recipes \in {<<r>> : r \in HarnessRecipes}
    /\ i = 1
    /\ pc = "call"
    /\ ingredients_list = <<>>
    /\ shown = ""
    /\ recipe_pdf = <<>>
    /\ shopping_list_pdf = <<>>
    /\ df = <<>>
    /\ chart = <<>>
    /\ raised = "none"
    /\ requests = <<>>
    /\ searchOk = "none"
    /\ infoOk = <<>>
    /\ rendered = <<>>
    /\ errors = <<>>
    /\ amount = 0
    /\ text = <<>>

\* "\n".join(ingredients_list) of line 153
RECURSIVE JoinLines(_)
JoinLines(lines) ==
    IF lines = <<>> THEN ""
    ELSE IF Len(lines) = 1 THEN Head(lines)
    ELSE Head(lines) \o "\n" \o JoinLines(Tail(lines))

\* lines 147-153 and 185-199: the list, its display and the two PDFs.
\* An exception of the loop ends the run before anything is displayed.
ListAndPdfs(next) ==
    \E r \in ListLoop(Ingredients(recipe), people_count, <<>>) :
        IF r.raised # "none"
        THEN /\ raised' = r.raised
             /\ pc' = "raised"
             /\ UNCHANGED <<ingredients_list, shown, recipe_pdf, shopping_list_pdf>>
        ELSE LET strs == [k \in 1..Len(r.lines) |-> LineText(r.lines[k])]
             IN  /\ ingredients_list' = r.lines
                 /\ shown' = JoinLines(strs)
                 /\ recipe_pdf' = create_recipe_pdf(TitleOf(recipe.id), strs)
                 /\ shopping_list_pdf' =
                        create_shopping_list_pdf(TitleOf(recipe.id), strs)
                 /\ raised' = "none"
                 /\ pc' = next

\* line 202
CallCreateDf(next) ==
    LET r == create_ingredients_df(people_count, recipe)
    IN  IF r.raised # "none"
        THEN /\ raised' = r.raised
             /\ pc' = "raised"
             /\ df' = df
        ELSE /\ df' = r.df
             /\ raised' = "none"
             /\ pc' = next

\* line 203
CallPlotChart ==
    /\ chart' = ChartRows(df, chart_option)
    /\ df' = FrameAfterPlot(df, chart_option)

IngredientList ==
    /\ pc = "call"
    /\ ListAndPdfs("listed")
    /\ UNCHANGED <<people_count, chart_option, recipes, i, df, chart, requests,
                   searchOk, infoOk, rendered, errors, amount, text>>

CreateIngredientsDf ==
    /\ pc = "call"
    /\ CallCreateDf("df")
    /\ UNCHANGED <<people_count, chart_option, recipes, i, ingredients_list,
                   shown, recipe_pdf, shopping_list_pdf, chart, requests,
                   searchOk, infoOk, rendered, errors, amount, text>>

PlotChart ==
    /\ pc = "df"
    /\ CallPlotChart
    /\ pc' = "plotted"
    /\ UNCHANGED <<people_count, chart_option, recipes, i, ingredients_list,
                   shown, recipe_pdf, shopping_list_pdf, raised, requests,
                   searchOk, infoOk, rendered, errors, amount, text>>

Next == IngredientList \/ CreateIngredientsDf \/ PlotChart

Spec == Init /\ [][Next]_vars

-----------------------------------------------------------------------------
(* SpecFmt: format_amount applied to every amount up to MaxFmtAmount *)

InitFmt ==
    /\ amount \in 0..MaxFmtAmount
    /\ text = <<>>
    /\ pc = "call"
    /\ people_count = 1
    /\ chart_option = "Bar Chart"
    /\ recipes = <<>>
    /\ i = 0
    /\ ingredients_list = <<>>
    /\ shown = ""
    /\ recipe_pdf = <<>>
    /\ shopping_list_pdf = <<>>
    /\ df = <<>>
    /\ chart = <<>>
    /\ raised = "none"
    /\ requests = <<>>
    /\ searchOk = "none"
    /\ infoOk = <<>>
    /\ rendered = <<>>
    /\ errors = <<>>

FormatAmount ==
    /\ pc = "call"
    /\ text' \in format_amount(amount)
    /\ pc' = "formatted"
    /\ UNCHANGED <<people_count, chart_option, recipes, i, ingredients_list,
                   shown, recipe_pdf, shopping_list_pdf, df, chart, raised,
                   requests, searchOk, infoOk, rendered, errors, amount>>

NextFmt == FormatAmount

SpecFmt == InitFmt /\ [][NextFmt]_vars

-----------------------------------------------------------------------------
(* SpecApp: the script, lines 127-203 *)

\* min_value of the number_input of line 132
MinValue == 1

\* value of the number_input of line 132
DefaultPeople == 1

\* what a user types into the people widget
TypedValues == {0, 1, 2, MaxTyped - 1, MaxTyped}

\* a number_input without min_value takes whatever is typed
NumberInputNoMin(value, typed) == typed

\* st.number_input(min_value=1): the widget does not commit a number below
\* min_value and keeps its value; no max_value is given
NumberInput(value, typed) == IF typed < MinValue THEN value ELSE typed

\* the recipes a search response is made of
AppRecipes ==
    {[id |-> 11,
      usedIngredients |->
          <<[originalName |-> "flour", amount |-> Unit, unitLong |-> "cup"]>>,
      missedIngredients |->
          <<[originalName |-> "flour", amount |-> Unit \div 2, unitLong |-> "cup"]>>],
     [id |-> 22,
      usedIngredients |-> <<[originalName |-> "egg", amount |-> Unit]>>,
      missedIngredients |-> <<>>],
     [id |-> 33,
      usedIngredients |-> <<[originalName |-> "milk", unitLong |-> "cup"]>>,
      missedIngredients |-> <<>>]}

\* the bodies of an OK search response: lists of distinct recipes
RecipeLists ==
    {s \in UNION {[1..n -> AppRecipes] : n \in 0..MaxRecipes} :
        \A a, b \in 1..Len(s) : a # b => s[a].id # s[b].id}

\* a get_recipe_information that asks again after a failed response
InfoRequestsRetry(recipe_id, ok) ==
    IF ok THEN <<[kind |-> "information", id |-> recipe_id]>>
    ELSE <<[kind |-> "information", id |-> recipe_id],
           [kind |-> "information", id |-> recipe_id]>>

\* the requests get_recipe_information(recipe_id) issues, line 32
InfoRequests(recipe_id, ok) == <<[kind |-> "information", id |-> recipe_id]>>

\* the request get_recipes issues, line 21
SearchRequests == <<[kind |-> "findByIngredients", id |-> 0]>>

InitApp ==
    /\ people_count = DefaultPeople
    /\ chart_option = "Bar Chart"
    /\ pc = "idle"
    /\ recipes = <<>>
    /\ i = 0
    /\ ingredients_list = <<>>
    /\ shown = ""
    /\ recipe_pdf = <<>>
    /\ shopping_list_pdf = <<>>
    /\ df = <<>>
    /\ chart = <<>>
    /\ raised = "none"
    /\ requests = <<>>
    /\ searchOk = "none"
    /\ infoOk = <<>>
    /\ rendered = <<>>
    /\ errors = <<>>
    /\ amount = 0
    /\ text = <<>>

\* the script is not running: it ended, or an exception ended it
Resting == pc \in {"idle", "raised"}

\* A rerun of the script starts from an empty page and fresh variables.
Rerun ==
    /\ ingredients_list' = <<>>
    /\ shown' = ""
    /\ recipe_pdf' = <<>>
    /\ shopping_list_pdf' = <<>>
    /\ df' = <<>>
    /\ chart' = <<>>
    /\ raised' = "none"
    /\ rendered' = <<>>

\* A widget change reruns the script with the button not pressed: line 136
\* is false and nothing is fetched or rendered.
RerunIdle ==
    /\ Rerun
    /\ recipes' = <<>>
    /\ i' = 0
    /\ pc' = "idle"
    /\ requests' = <<>>
    /\ searchOk' = "none"
    /\ infoOk' = <<>>
    /\ errors' = <<>>

\* line 132
SetPeopleCount ==
    /\ Resting
    /\ \E typed \in TypedValues : people_count' = NumberInput(people_count, typed)
    /\ RerunIdle
    /\ UNCHANGED <<chart_option, amount, text>>

\* line 134
SelectChart ==
    /\ Resting
    /\ chart_option' \in ChartTypes
    /\ RerunIdle
    /\ UNCHANGED <<people_count, amount, text>>

\* lines 136-138: the button is pressed and get_recipes (lines 15-26) runs
SearchRecipes ==
    /\ Resting
    /\ Rerun
    /\ requests' = SearchRequests
    /\ infoOk' = <<>>
    /\ \E ok \in BOOLEAN :
          IF ok
          THEN /\ searchOk' = "ok"
               /\ errors' = <<>>
               /\ recipes' \in RecipeLists
               /\ IF recipes' # <<>>
                  THEN i' = 1 /\ pc' = "info"
                  ELSE i' = 0 /\ pc' = "idle"
          ELSE /\ searchOk' = "failed"
               /\ errors' = <<"Error fetching recipes!">>
               /\ recipes' = <<>>
               /\ i' = 0
               /\ pc' = "idle"
    /\ UNCHANGED <<people_count, chart_option, amount, text>>

\* the for statement of line 139 takes the next recipe or ends
Advance ==
    /\ i' = i + 1
    /\ pc' = IF i < Len(recipes) THEN "info" ELSE "idle"

\* lines 140-142: get_recipe_information (lines 28-36); an empty record
\* skips the recipe
GetRecipeInformation ==
    /\ pc = "info"
    /\ \E ok \in BOOLEAN :
          /\ requests' = requests \o InfoRequests(recipe.id, ok)
          /\ infoOk' = Append(infoOk, ok)
          /\ IF ok
             THEN /\ rendered' = Append(rendered, recipe.id)
                  /\ pc' = "col1"
                  /\ i' = i
             ELSE /\ rendered' = rendered
                  /\ Advance
    /\ UNCHANGED <<people_count, chart_option, recipes, ingredients_list, shown,
                   recipe_pdf, shopping_list_pdf, df, chart, raised, searchOk,
                   errors, amount, text>>

\* lines 145-199
Column1 ==
    /\ pc = "col1"
    /\ ListAndPdfs("col2")
    /\ UNCHANGED <<people_count, chart_option, recipes, i, df, chart, requests,
                   searchOk, infoOk, rendered, errors, amount, text>>

\* line 202
Column2Df ==
    /\ pc = "col2"
    /\ CallCreateDf("plot")
    /\ UNCHANGED <<people_count, chart_option, recipes, i, ingredients_list,
                   shown, recipe_pdf, shopping_list_pdf, chart, requests,
                   searchOk, infoOk, rendered, errors, amount, text>>

\* line 203, and back to line 139
Column2Plot ==
    /\ pc = "plot"
    /\ CallPlotChart
    /\ Advance
    /\ UNCHANGED <<people_count, chart_option, recipes, ingredients_list,
                   shown, recipe_pdf, shopping_list_pdf, raised, requests,
                   searchOk, infoOk, rendered, errors, amount, text>>

NextApp ==
    \/ SetPeopleCount
    \/ SelectChart
    \/ SearchRecipes
    \/ GetRecipeInformation
    \/ Column1
    \/ Column2Df
    \/ Column2Plot

SpecApp == InitApp /\ [][NextApp]_vars

-----------------------------------------------------------------------------
(* Properties of create_ingredients_df, the ingredient list and plot_chart, *)
(* checked under Spec                                                       *)

Names(ings) == {ings[k]["originalName"] : k \in 1..Len(ings)}

\* people_count times the amounts of the records of ings named name
ScaledSum(ings, name, count) ==
    SumSeq([k \in 1..Len(ings) |->
              IF ings[k]["originalName"] = name THEN ings[k]["amount"] * count
              ELSE 0])

\* position of the first record of ings named name
FirstIndex(ings, name) ==
    CHOOSE k \in 1..Len(ings) :
        /\ ings[k]["originalName"] = name
        /\ \A j \in 1..(k - 1) : ings[j]["originalName"] # name

\* position of the last record of ings named name
LastIndex(ings, name) ==
    CHOOSE k \in 1..Len(ings) :
        /\ ings[k]["originalName"] = name
        /\ \A j \in (k + 1)..Len(ings) : ings[j]["originalName"] # name

Amounts(frame) == [k \in 1..Len(frame) |-> frame[k].Amount]

Values(rows) == [k \in 1..Len(rows) |-> rows[k].value]

\* create_ingredients_df has returned a frame for the recipe
DfReturned == pc = "df"

\* C1: the Amount of each row of create_ingredients_df is the sum of
\* amount * people_count over all records of used+missed with that name, so
\* the sum of Amount over the rows is people_count times the sum of all the
\* records' amounts.
C1_AmountsAccumulate ==
    DfReturned =>
        /\ \A k \in 1..Len(df) :
              df[k].Amount =
                  ScaledSum(Ingredients(recipe), df[k].Ingredient, people_count)
        /\ SumSeq(Amounts(df)) =
              people_count *
              SumSeq([k \in 1..Len(Ingredients(recipe)) |->
                        Ingredients(recipe)[k]["amount"]])

\* C2: the rows of create_ingredients_df have pairwise distinct Ingredient
\* names and the set of their names is the set of names in used+missed.
C2_DistinctNames ==
    DfReturned =>
        /\ \A a, b \in 1..Len(df) : a # b => df[a].Ingredient # df[b].Ingredient
        /\ {df[k].Ingredient : k \in 1..Len(df)} = Names(Ingredients(recipe))

\* a name of usedIngredients is also a name of missedIngredients, and the
\* frame holds one row
C2_Witness ==
    /\ DfReturned
    /\ Names(recipe.usedIngredients) \cap Names(recipe.missedIngredients) # {}
    /\ Len(Ingredients(recipe)) = 3
    /\ Len(df) = 1

\* C3: the rows come in first-seen order over used followed by missed: a row
\* precedes another exactly when its name first occurs earlier; a later
\* occurrence of a name does not move its row.
C3_FirstSeenOrder ==
    DfReturned =>
        \A a, b \in 1..Len(df) :
            a < b => FirstIndex(Ingredients(recipe), df[a].Ingredient)
                       < FirstIndex(Ingredients(recipe), df[b].Ingredient)

\* the first name occurs again after the second one, and the rows are not in
\* descending order of Amount
C3_Witness ==
    /\ DfReturned
    /\ Len(df) = 2
    /\ LastIndex(Ingredients(recipe), df[1].Ingredient)
         > FirstIndex(Ingredients(recipe), df[2].Ingredient)
    /\ df[1].Amount < df[2].Amount

C5_ChartConservesTotal ==
    [][(pc = "df" /\ pc' = "plotted") =>
          /\ SumSeq(Values(chart')) = SumSeq(Amounts(df))
          /\ df' = df]_vars

\* a frame of more than 5 rows has been charted with its total
C5_Witness ==
    /\ pc = "plotted"
    /\ Len(df) > 5
    /\ SumSeq(Values(chart)) = SumSeq(Amounts(df))
    /\ SumSeq(Amounts(df)) > 0

\* C7: neither create_ingredients_df nor the ingredient-list loop raises on
\* a record without amount or without name.
C7_NeverRaises == raised = "none"

-----------------------------------------------------------------------------
(* Properties of format_amount, checked under SpecFmt *)

DigitVal(c) == CHOOSE d \in 0..9 : Digits[d + 1] = c

RECURSIVE ParseInt(_)
ParseInt(cs) ==
    IF cs = <<>> THEN 0
    ELSE 10 * ParseInt(SubSeq(cs, 1, Len(cs) - 1)) + DigitVal(cs[Len(cs)])

\* position of the decimal point of t, 0 when it has none
DotPos(t) == IF "." \in Range(t) THEN CHOOSE k \in 1..Len(t) : t[k] = "." ELSE 0

IntPart(t) == IF DotPos(t) = 0 THEN t ELSE SubSeq(t, 1, DotPos(t) - 1)

FracPart(t) == IF DotPos(t) = 0 THEN <<>> ELSE SubSeq(t, DotPos(t) + 1, Len(t))

\* the number the text t denotes, in hundredths, for t with at most two
\* decimals
ReadHundredths(t) ==
    100 * ParseInt(IntPart(t)) +
    (IF Len(FracPart(t)) = 1 THEN 10 * DigitVal(FracPart(t)[1])
     ELSE ParseInt(FracPart(t)))

\* C6: format_amount rounds to two decimals and then tests integrality: the
\* text denotes a hundredth nearest to the amount; when that is a whole
\* number the text is the number without decimal point, otherwise it has one
\* or two decimals and does not end in 0.
C6_RoundThenFormat ==
    pc = "formatted" =>
        /\ Len(IntPart(text)) >= 1
        /\ Len(FracPart(text)) <= 2
        /\ \A k \in 1..Len(text) : k # DotPos(text) => text[k] \in Range(Digits)
        /\ LET h == ReadHundredths(text)
               d == h * Hundredth - amount
           IN  /\ 2 * d <= Hundredth
               /\ -2 * d <= Hundredth
               /\ IF h % 100 = 0
                  THEN /\ DotPos(text) = 0
                       /\ text = StrInt(h \div 100)
                  ELSE /\ DotPos(text) > 0
                       /\ Len(FracPart(text)) >= 1
                       /\ text[Len(text)] # "0"

\* 2.0049 is formatted as "2"
C6_Witness ==
    /\ pc = "formatted"
    /\ amount = 2 * Unit + 49
    /\ text = <<"2">>

-----------------------------------------------------------------------------
(* Properties of the script, checked under SpecApp *)

\* the script is scaling the records of a recipe by people_count (line 149)
\* or passing people_count to create_ingredients_df (line 202)
Scaling == pc \in {"col1", "col2", "plot"}

\* C8 as stated: the people_count that reaches the per-record scaling and
\* create_ingredients_df is an integer of 1..100.
C8_PeopleWithinRange == Scaling => people_count \in 1..100

\* C8 as amended: the people_count that reaches the per-record scaling and
\* create_ingredients_df is an integer not below 1; no upper limit holds.
C8_PeopleAtLeastOne == Scaling => (people_count \in Int /\ people_count >= MinValue)

\* create_ingredients_df has scaled a recipe by more than 100 people
C8_Witness ==
    /\ pc = "plot"
    /\ people_count > 100
    /\ Len(df) = 1
    /\ df[1].Amount = people_count * (Unit \div 2)

\* ids of the recipes whose information response was OK, in list order
RECURSIVE OkIds(_, _)
OkIds(rs, oks) ==
    IF oks = <<>> THEN <<>>
    ELSE (IF Head(oks) THEN <<Head(rs).id>> ELSE <<>>) \o OkIds(Tail(rs), Tail(oks))

\* C10: one search request opens every run and is the only one; the
\* information requests follow, one per recipe, in list order, none repeated.
\* A failed search gives an empty recipe list, the error message and no
\* rendered recipe.  The rendered recipes are those whose information
\* response was OK; a run that no exception ended has asked for every recipe
\* of the list, whatever the earlier responses were.
C10_RequestsOnceInOrder ==
    /\ searchOk = "none" => requests = <<>>
    /\ searchOk # "none" =>
          /\ Len(infoOk) <= Len(recipes)
          /\ requests = SearchRequests \o
                [k \in 1..Len(infoOk) |->
                    [kind |-> "information", id |-> recipes[k].id]]
          /\ rendered = OkIds(recipes, infoOk)
    /\ searchOk = "failed" =>
          /\ recipes = <<>>
          /\ errors = <<"Error fetching recipes!">>
          /\ rendered = <<>>
          /\ requests = SearchRequests
          /\ pc = "idle"
    /\ (searchOk = "ok" /\ pc = "idle") => Len(infoOk) = Len(recipes)
    /\ pc = "info" => Len(infoOk) = i - 1

\* the first information response failed, and the second recipe was still
\* asked for and rendered
C10_Witness ==
    /\ pc = "idle"
    /\ Len(recipes) = 2
    /\ infoOk = <<FALSE, TRUE>>
    /\ rendered = <<recipes[2].id>>
    /\ Len(requests) = 3
    /\ chart # <<>>

====
